---- MODULE Spec2Model ----
(***************************************************************************)
(* Model of setup.py: the host-provisioning routine (group, user,         *)
(* deployment layout, key material, sshd port).                            *)
(*                                                                         *)
(* Text is modelled as sequences of one-character strings, so that the     *)
(* string operations of the code (lower, startswith, split, strip,        *)
(* f-string formatting, readlines, writelines) are computed the way       *)
(* Python computes them.                                                   *)
(*                                                                         *)
(* Every function of the code is an operator from a process state st to a  *)
(* process state: st carries the host resources (group/user database,     *)
(* filesystem, sshd_config, key counter), the console lines printed, the   *)
(* commands and writes issued, and the status of the process ("ok", or    *)
(* the reason it died).  A function applied to a dead process does         *)
(* nothing.                                                                *)
(*                                                                         *)
(* main is also run statement by statement (procs): a process holds its   *)
(* position in main, and each statement acts on the host as it is then,   *)
(* so that a run can be interrupted between two statements and two runs   *)
(* can interleave.                                                         *)
(***************************************************************************)
EXTENDS Integers, Sequences, FiniteSets, TLC

VARIABLES groups, users, member, fs, sshd_config, keygens, calls, procs

vars == <<groups, users, member, fs, sshd_config, keygens, calls, procs>>

----------------------------------------------------------------------------
(* Bounds *)

\* invocations per behaviour
MaxCalls == 3

\* lines of the initial sshd_config
MaxLines == 2

\* interruptions of a run per behaviour
MaxInterrupts == 1

----------------------------------------------------------------------------
(* Python string operations, on sequences of characters *)

str_lower_char(c) ==
    CASE c = "P" -> "p"
      [] c = "O" -> "o"
      [] c = "R" -> "r"
      [] c = "T" -> "t"
      [] c = "U" -> "u"
      [] c = "S" -> "s"
      [] c = "E" -> "e"
      [] c = "A" -> "a"
      [] c = "M" -> "m"
      [] OTHER -> c

\* s.lower()
str_lower(s) == [i \in 1..Len(s) |-> str_lower_char(s[i])]

\* s.startswith(prefix)
str_startswith(s, prefix) ==
    /\ Len(s) >= Len(prefix)
    /\ SubSeq(s, 1, Len(prefix)) = prefix

str_is_space(c) == c \in {" ", "\t", "\n", "\r"}

RECURSIVE str_lstrip(_)
str_lstrip(s) ==
    IF s # <<>> /\ str_is_space(Head(s)) THEN str_lstrip(Tail(s)) ELSE s

RECURSIVE str_rstrip(_)
str_rstrip(s) ==
    IF s # <<>> /\ str_is_space(s[Len(s)])
    THEN str_rstrip(SubSeq(s, 1, Len(s) - 1))
    ELSE s

\* s.strip()
str_strip(s) == str_rstrip(str_lstrip(s))

\* s.split(sep) for a one-character sep: every occurrence of sep ends a
\* field, empty fields are kept
RECURSIVE str_split_from(_, _, _)
str_split_from(s, sep, field) ==
    IF s = <<>> THEN <<field>>
    ELSE IF Head(s) = sep
         THEN <<field>> \o str_split_from(Tail(s), sep, <<>>)
         ELSE str_split_from(Tail(s), sep, Append(field, Head(s)))

str_split(s, sep) == str_split_from(s, sep, <<>>)

digit_chars == <<"0", "1", "2", "3", "4", "5", "6", "7", "8", "9">>

\* str(n) / f"{n}" for a non-negative integer
RECURSIVE str_of_int(_)
str_of_int(n) ==
    IF n < 10 THEN <<digit_chars[n + 1]>>
    ELSE Append(str_of_int(n \div 10), digit_chars[(n % 10) + 1])

\* file.readlines(): the content cut after every newline; a last line
\* without newline is kept as it is
RECURSIVE readlines_from(_, _)
readlines_from(content, line) ==
    IF content = <<>> THEN (IF line = <<>> THEN <<>> ELSE <<line>>)
    ELSE IF Head(content) = "\n"
         THEN <<Append(line, "\n")>> \o readlines_from(Tail(content), <<>>)
         ELSE readlines_from(Tail(content), Append(line, Head(content)))

readlines(content) == readlines_from(content, <<>>)

\* file.writelines(lines): the lines one after the other, nothing added
RECURSIVE writelines(_)
writelines(lines) ==
    IF lines = <<>> THEN <<>> ELSE Head(lines) \o writelines(Tail(lines))

----------------------------------------------------------------------------
(* Names *)

GROUP == "docker"

Groups == {GROUP, "www"}

Users == {"deploy", "alice"}

Folders == {"app"}

\* target ports a caller may pass: the default 22 itself and custom ones
Ports == {22, 2222, 8080}

----------------------------------------------------------------------------
(* Filesystem *)

NoFile == "ENOENT"

opt_path(folder) == "/opt/" \o folder

home_dir(user) == "/home/" \o user

home_path(user, folder) == "/home/" \o user \o "/" \o folder

ssh_dir(user) == "/home/" \o user \o "/.ssh"

ssh_key_path(user) == "/home/" \o user \o "/.ssh/id_rsa"

ssh_pub_key_path(user) == ssh_key_path(user) \o ".pub"

authorized_keys_path(user) == "/home/" \o user \o "/.ssh/authorized_keys"

\* a directory outside the layout, and a path at which nothing exists
OtherDir == "/srv/other"

MissingPath == "/srv/missing"

Paths ==
    {OtherDir, MissingPath}
    \cup {opt_path(f) : f \in Folders}
    \cup {home_dir(u) : u \in Users}
    \cup {home_path(u, f) : u \in Users, f \in Folders}
    \cup {ssh_dir(u) : u \in Users}
    \cup {ssh_key_path(u) : u \in Users}
    \cup {ssh_pub_key_path(u) : u \in Users}
    \cup {authorized_keys_path(u) : u \in Users}

\* the directory that holds a path
parent(path) ==
    IF \E u \in Users, f \in Folders : path = home_path(u, f)
    THEN home_dir(CHOOSE u \in Users : \E f \in Folders : path = home_path(u, f))
    ELSE IF \E u \in Users : path = ssh_dir(u)
    THEN home_dir(CHOOSE u \in Users : path = ssh_dir(u))
    ELSE IF \E u \in Users : path \in {ssh_key_path(u), ssh_pub_key_path(u),
                                       authorized_keys_path(u)}
    THEN ssh_dir(CHOOSE u \in Users : path \in {ssh_key_path(u), ssh_pub_key_path(u),
                                                authorized_keys_path(u)})
    ELSE "/"

Absent == [kind |-> "none", target |-> "", owner |-> "", mode |-> "", data |-> <<>>]

Dir(owner, mode) ==
    [kind |-> "dir", target |-> "", owner |-> owner, mode |-> mode, data |-> <<>>]

File(owner, mode, data) ==
    [kind |-> "file", target |-> "", owner |-> owner, mode |-> mode, data |-> data]

Link(owner, target) ==
    [kind |-> "link", target |-> target, owner |-> owner, mode |-> "777", data |-> <<>>]

\* os.path.lexists: an entry of any kind is at the path
lexists(files, path) == files[path].kind # "none"

\* the path a path leads to, following symbolic links (the links of the
\* model are at most two deep); NoFile when it leads nowhere
resolve(files, path) ==
    LET step(p) == IF p \notin Paths \/ p = NoFile THEN NoFile
                   ELSE IF files[p].kind = "none" THEN NoFile
                   ELSE IF files[p].kind = "link" THEN files[p].target
                   ELSE p
        final(p) == IF p \notin Paths \/ p = NoFile THEN NoFile
                    ELSE IF files[p].kind \in {"none", "link"} THEN NoFile
                    ELSE p
    IN  final(step(step(step(path))))

\* os.path.isfile: follows links
isfile(files, path) ==
    resolve(files, path) # NoFile /\ files[resolve(files, path)].kind = "file"

isdir(files, path) ==
    path = "/" \/ (resolve(files, path) # NoFile /\ files[resolve(files, path)].kind = "dir")

----------------------------------------------------------------------------
(* Process state and console output *)

ok(st) == st.status = "ok"

\* os.system(...) and file writes are recorded in the order they are issued
issue(st, effect) == [st EXCEPT !.cmds = Append(@, effect)]

\* rich print of "[color][category][/] message"
say(st, color, category, fmt, arg) ==
    [st EXCEPT !.out = Append(@, [color |-> color, category |-> category,
                                  fmt |-> fmt, arg |-> arg])]

print_error(st, category, fmt, arg, exit_after) ==
    LET st1 == say(st, "red", category, fmt, arg)
    IN  IF exit_after THEN [st1 EXCEPT !.status = "SystemExit(1)"] ELSE st1

print_warning(st, category, fmt, arg) == say(st, "yellow", category, fmt, arg)

print_info(st, category, fmt, arg) == say(st, "purple", category, fmt, arg)

\* an exception no handler catches ends the process
raise(st, exception) == [st EXCEPT !.status = exception]

\* exit status of the process
exit_status(status) == IF status = "ok" THEN 0 ELSE 1

----------------------------------------------------------------------------
(* Identity: group and user *)

\* sudo groupadd group
groupadd(st, group) ==
    LET st1 == issue(st, <<"groupadd", group>>)
    IN  IF group \in st1.groups THEN st1
        ELSE [st1 EXCEPT !.groups = @ \cup {group}]

\* sudo useradd -m user -s /bin/bash : the account and, when nothing is at
\* /home/user, its home directory
useradd(st, user) ==
    LET st1 == issue(st, <<"useradd", user>>)
    IN  IF user \in st1.users THEN st1
        ELSE [st1 EXCEPT !.users = @ \cup {user},
                         !.fs = IF lexists(@, home_dir(user)) THEN @
                                ELSE [@ EXCEPT ![home_dir(user)] = Dir(user, "750")]]

\* sudo usermod -aG group user : fails when the user or the group is unknown
usermod_aG(st, group, user) ==
    LET st1 == issue(st, <<"usermod", group, user>>)
    IN  IF user \in st1.users /\ group \in st1.groups
        THEN [st1 EXCEPT !.member = @ \cup {<<user, group>>}]
        ELSE st1

\* create_group without the lookup: the creation is issued every time
create_group_unguarded(st, group) ==
    IF ~ok(st) THEN st
    ELSE print_info(groupadd(st, group), "GROUP", "{} created.", group)

create_group(st, group) ==
    IF ~ok(st) THEN st
    ELSE IF group \in st.groups
    THEN print_warning(st, "GROUP", "{} already exists, proceeding...", group)
    ELSE print_info(groupadd(st, group), "GROUP", "{} created.", group)

\* create_user that adds the user to the group also when the user is
\* already there
create_user_ensures_member(st, user, group) ==
    IF ~ok(st) THEN st
    ELSE IF user \in st.users
    THEN print_warning(usermod_aG(st, group, user),
                       "USER", "{} already exists, proceeding...", user)
    ELSE print_info(usermod_aG(useradd(st, user), group, user),
                    "USER", "{} created.", user)

create_user(st, user, group) ==
    IF ~ok(st) THEN st
    ELSE IF user \in st.users
    THEN print_warning(st, "USER", "{} already exists, proceeding...", user)
    ELSE print_info(usermod_aG(useradd(st, user), group, user),
                    "USER", "{} created.", user)

----------------------------------------------------------------------------
(* Deployment layout *)

\* os.makedirs(folder), run as root: FileExistsError when an entry of any
\* kind is at the path
create_folder(st, folder) ==
    IF ~ok(st) THEN st
    ELSE IF lexists(st.fs, folder)
    THEN print_warning(st, "FOLDER", "{} already exists, proceeding...", folder)
    ELSE print_info([issue(st, <<"makedirs", folder>>)
                        EXCEPT !.fs[folder] = Dir("root", "755")],
                    "FOLDER", "{} created.", folder)

\* sudo chown user:user folder : follows a symbolic link to what it leads
\* to; fails (unnoticed) for an unknown user or a path that leads nowhere
chown_folder(st, folder, user) ==
    IF ~ok(st) THEN st
    ELSE LET st1 == issue(st, <<"chown", user, folder>>)
             at == resolve(st1.fs, folder)
             st2 == IF user \in st1.users /\ at # NoFile
                    THEN [st1 EXCEPT !.fs[at].owner = user]
                    ELSE st1
         IN  print_info(st2, "FOLDER", "{} permissions set to " \o user, folder)

\* sudo chmod mode file : follows a symbolic link
chmod_file(st, file, mode) ==
    IF ~ok(st) THEN st
    ELSE LET st1 == issue(st, <<"chmod", mode, file>>)
             at == resolve(st1.fs, file)
             st2 == IF at # NoFile THEN [st1 EXCEPT !.fs[at].mode = mode] ELSE st1
         IN  print_info(st2, "FILE", "{} permissions set to " \o mode, file)

\* create_symlink that replaces what is at destination (ln -sf)
create_symlink_replace(st, source, destination) ==
    IF ~ok(st) THEN st
    ELSE IF ~isdir(st.fs, parent(destination))
    THEN raise(st, "FileNotFoundError")
    ELSE print_info([issue(st, <<"symlink", source, destination>>)
                        EXCEPT !.fs[destination] = Link("root", source)],
                    "SYMLINK", "{} symlinked to " \o destination, source)

\* os.symlink(source, destination), run as root: FileExistsError when an
\* entry of any kind is at destination, FileNotFoundError (not caught) when
\* the directory of destination does not exist
create_symlink(st, source, destination) ==
    IF ~ok(st) THEN st
    ELSE IF lexists(st.fs, destination)
    THEN print_warning(st, "SYMLINK", "{} already exists, proceeding...", destination)
    ELSE IF ~isdir(st.fs, parent(destination))
    THEN raise(st, "FileNotFoundError")
    ELSE print_info([issue(st, <<"symlink", source, destination>>)
                        EXCEPT !.fs[destination] = Link("root", source)],
                    "SYMLINK", "{} symlinked to " \o destination, source)

create_deployment_folder(st, folder, user) ==
    LET destination == opt_path(folder)
        home_destination == home_path(user, folder)
    IN  chown_folder(
            chown_folder(
                create_symlink(create_folder(st, destination),
                               destination, home_destination),
                destination, user),
            home_destination, user)

----------------------------------------------------------------------------
(* Key material *)

\* touch file, by os.system: an empty file when nothing is at the path and
\* its directory exists; never raises
create_file(st, file) ==
    IF ~ok(st) THEN st
    ELSE LET st1 == issue(st, <<"touch", file>>)
             st2 == IF ~lexists(st1.fs, file) /\ isdir(st1.fs, parent(file))
                    THEN [st1 EXCEPT !.fs[file] = File("root", "644", <<>>)]
                    ELSE st1
         IN  print_info(st2, "FILE", "{} created.", file)

\* sudo -u user ssh-keygen -t rsa -b 4096 -f path -N '' : a fresh key pair
\* (path and path.pub) and the user's .ssh directory; fails for an unknown
\* user, a missing home directory or an entry already at path
ssh_keygen(st, user) ==
    LET st1 == issue(st, <<"ssh-keygen", user>>)
        key == st1.keygens + 1
        dir == ssh_dir(user)
    IN  IF /\ user \in st1.users
           /\ isdir(st1.fs, home_dir(user))
           /\ (isdir(st1.fs, dir) \/ ~lexists(st1.fs, dir))
           /\ ~lexists(st1.fs, ssh_key_path(user))
        THEN [st1 EXCEPT
                !.keygens = key,
                !.fs = [p \in Paths |->
                          IF p = dir /\ ~lexists(st1.fs, dir) THEN Dir(user, "700")
                          ELSE IF p = ssh_key_path(user) THEN File(user, "600", <<key>>)
                          ELSE IF p = ssh_pub_key_path(user) THEN File(user, "644", <<key>>)
                          ELSE st1.fs[p]]]
        ELSE st1

\* append_public_key that leaves the file alone when it already holds the
\* key
append_public_key_once(st, user) ==
    LET pub == resolve(st.fs, ssh_pub_key_path(user))
        auth == authorized_keys_path(user)
        at == resolve(st.fs, auth)
    IN  IF ~ok(st) THEN st
        ELSE IF pub = NoFile THEN raise(st, "FileNotFoundError")
        ELSE IF at # NoFile /\ st.fs[at].kind = "file"
        THEN IF \E n \in DOMAIN st.fs[at].data :
                    \E k \in DOMAIN st.fs[pub].data :
                        st.fs[at].data[n] = st.fs[pub].data[k]
             THEN st
             ELSE [issue(st, <<"append", auth>>)
                      EXCEPT !.fs[at].data = @ \o st.fs[pub].data]
        ELSE raise(st, "FileNotFoundError")

\* append_public_key that does nothing when there is no public key to
\* read
append_public_key_if_any(st, user) ==
    LET pub == resolve(st.fs, ssh_pub_key_path(user))
        auth == authorized_keys_path(user)
        at == resolve(st.fs, auth)
    IN  IF ~ok(st) THEN st
        ELSE IF pub = NoFile THEN st
        ELSE IF st.fs[pub].kind = "dir" THEN raise(st, "IsADirectoryError")
        ELSE IF at # NoFile /\ st.fs[at].kind = "dir" THEN raise(st, "IsADirectoryError")
        ELSE IF at # NoFile
        THEN [issue(st, <<"append", auth>>)
                 EXCEPT !.fs[at].data = @ \o st.fs[pub].data]
        ELSE IF lexists(st.fs, auth) \/ ~isdir(st.fs, parent(auth))
        THEN raise(st, "FileNotFoundError")
        ELSE [issue(st, <<"append", auth>>)
                 EXCEPT !.fs[auth] = File("root", "644", st.fs[pub].data)]

\* with open(pub, "r"), open(authorized_keys, "a"): write(read()) ; the
\* files are opened in this order, "a" creates the file
append_public_key(st, user) ==
    LET pub == resolve(st.fs, ssh_pub_key_path(user))
        auth == authorized_keys_path(user)
        at == resolve(st.fs, auth)
    IN  IF ~ok(st) THEN st
        ELSE IF pub = NoFile THEN raise(st, "FileNotFoundError")
        ELSE IF st.fs[pub].kind = "dir" THEN raise(st, "IsADirectoryError")
        ELSE IF at # NoFile /\ st.fs[at].kind = "dir" THEN raise(st, "IsADirectoryError")
        ELSE IF at # NoFile
        THEN [issue(st, <<"append", auth>>)
                 EXCEPT !.fs[at].data = @ \o st.fs[pub].data]
        \* nothing to append to, and no directory to create the file in (a
        \* link that leads nowhere is at the path on none of the hosts here)
        ELSE IF lexists(st.fs, auth) \/ ~isdir(st.fs, parent(auth))
        THEN raise(st, "FileNotFoundError")
        ELSE [issue(st, <<"append", auth>>)
                 EXCEPT !.fs[auth] = File("root", "644", st.fs[pub].data)]

\* generate_ssh_key_pair that looks for the public key file to decide
\* whether to generate
generate_ssh_key_pair_checks_pub(st, user) ==
    LET authorized_keys == authorized_keys_path(user)
        st1 == IF ~isfile(st.fs, ssh_pub_key_path(user))
               THEN print_info(ssh_keygen(st, user), "USER", "SSH key pair generated.", "")
               ELSE print_warning(st, "USER",
                                  "SSH key pair already exists, proceeding...", "")
        st2 == IF ~isfile(st1.fs, authorized_keys)
               THEN print_info(
                        chmod_file(create_file(st1, authorized_keys),
                                   authorized_keys, "600"),
                        "USER", "*authorized_keys* file created.", "")
               ELSE print_warning(st1, "USER",
                        "*authorized_keys* file already exists, proceeding...", "")
    IN  IF ~ok(st) THEN st ELSE append_public_key(st2, user)

\* generate_ssh_key_pair that sets the mode of authorized_keys in every
\* run, the file created or found
generate_ssh_key_pair_sets_mode(st, user) ==
    LET authorized_keys == authorized_keys_path(user)
        st1 == IF ~isfile(st.fs, ssh_key_path(user))
               THEN print_info(ssh_keygen(st, user), "USER", "SSH key pair generated.", "")
               ELSE print_warning(st, "USER",
                                  "SSH key pair already exists, proceeding...", "")
        st2 == IF ~isfile(st1.fs, authorized_keys)
               THEN print_info(
                        chmod_file(create_file(st1, authorized_keys),
                                   authorized_keys, "600"),
                        "USER", "*authorized_keys* file created.", "")
               ELSE chmod_file(
                        print_warning(st1, "USER",
                            "*authorized_keys* file already exists, proceeding...", ""),
                        authorized_keys, "600")
    IN  IF ~ok(st) THEN st ELSE append_public_key(st2, user)

generate_ssh_key_pair(st, user) ==
    LET path == ssh_key_path(user)
        authorized_keys == authorized_keys_path(user)
        st1 == IF ~isfile(st.fs, path)
               THEN print_info(ssh_keygen(st, user), "USER", "SSH key pair generated.", "")
               ELSE print_warning(st, "USER",
                                  "SSH key pair already exists, proceeding...", "")
        st2 == IF ~isfile(st1.fs, authorized_keys)
               THEN print_info(
                        chmod_file(create_file(st1, authorized_keys),
                                   authorized_keys, "600"),
                        "USER", "*authorized_keys* file created.", "")
               ELSE print_warning(st1, "USER",
                        "*authorized_keys* file already exists, proceeding...", "")
    IN  IF ~ok(st) THEN st ELSE append_public_key(st2, user)

----------------------------------------------------------------------------
(* SSH listener: sshd_config is [exists, content], the content a sequence
   of characters *)

ssh_config_file == "/etc/ssh/sshd_config"

default_ssh_port == <<"2", "2">>

commented_port_prefix == <<"#", "p", "o", "r", "t", " ", "2", "2">>

active_port_prefix == <<"p", "o", "r", "t", " ">>

\* f"Port {ssh_port}\n"
port_line(ssh_port) == <<"P", "o", "r", "t", " ">> \o str_of_int(ssh_port) \o <<"\n">>

\* line.lower().startswith("#port 22")
is_commented_default(line) == str_startswith(str_lower(line), commented_port_prefix)

\* line.lower().startswith("port ")
is_active_port(line) == str_startswith(str_lower(line), active_port_prefix)

\* scan_lines without the break after the replacement of a commented
\* default: the scan goes on over the lines that follow
RECURSIVE scan_lines_no_break(_, _, _, _)
scan_lines_no_break(lines, i, ssh_port, current_port) ==
    IF i > Len(lines) THEN [lines |-> lines, current_port |-> current_port]
    ELSE IF is_commented_default(lines[i])
    THEN scan_lines_no_break([lines EXCEPT ![i] = port_line(ssh_port)], i + 1,
                             ssh_port, current_port)
    ELSE IF is_active_port(lines[i])
    THEN [lines |-> lines,
          current_port |-> str_strip(str_split(lines[i], " ")[2])]
    ELSE scan_lines_no_break(lines, i + 1, ssh_port, current_port)

\* the loop over enumerate(lines), from line i on: the first line that is
\* a commented default port is replaced and ends the loop, the first line
\* that is an active port directive gives current_port and ends the loop
RECURSIVE scan_lines(_, _, _, _)
scan_lines(lines, i, ssh_port, current_port) ==
    IF i > Len(lines) THEN [lines |-> lines, current_port |-> current_port]
    ELSE IF is_commented_default(lines[i])
    THEN [lines |-> [lines EXCEPT ![i] = port_line(ssh_port)],
          current_port |-> current_port]
    ELSE IF is_active_port(lines[i])
    THEN [lines |-> lines,
          current_port |-> str_strip(str_split(lines[i], " ")[2])]
    ELSE scan_lines(lines, i + 1, ssh_port, current_port)

\* sudo systemctl restart sshd
restart_sshd(st) == issue(st, <<"restart", "sshd">>)

\* with open(ssh_config_file, "w"): writelines(lines)
write_ssh_config(st, lines) ==
    [issue(st, <<"write", ssh_config_file>>)
        EXCEPT !.sshd_config = [exists |-> TRUE, content |-> writelines(lines)]]

\* update_ssh_config without the decision rule: the file is written and
\* the daemon restarted whatever the current port is
update_ssh_config_always_writes(st, ssh_port) ==
    IF ~ok(st) THEN st
    ELSE IF ~st.sshd_config.exists
    THEN print_error(st, "SSH", "SSH config file not found: {}", ssh_config_file, TRUE)
    ELSE LET r == scan_lines(readlines(st.sshd_config.content), 1, ssh_port,
                             default_ssh_port)
         IN  print_info(
                 restart_sshd(
                     print_info(write_ssh_config(st, r.lines), "SSH",
                                "SSH server port changed to {}", str_of_int(ssh_port))),
                 "SSH", "SSH server restarted.", "")

\* update_ssh_config that takes a missing file for an empty one
update_ssh_config_creates(st, ssh_port) ==
    IF ~ok(st) THEN st
    ELSE LET r == scan_lines(readlines(st.sshd_config.content), 1, ssh_port,
                             default_ssh_port)
         IN  IF r.current_port = default_ssh_port
             THEN print_info(
                      restart_sshd(
                          print_info(write_ssh_config(st, r.lines), "SSH",
                                     "SSH server port changed to {}",
                                     str_of_int(ssh_port))),
                      "SSH", "SSH server restarted.", "")
             ELSE print_warning(st, "SSH", "Port is already set to {}, proceeding...",
                                r.current_port)

\* open(ssh_config_file, "r").readlines(): FileNotFoundError without file
read_ssh_config(st) ==
    IF ~ok(st) THEN st
    ELSE IF ~st.sshd_config.exists THEN raise(st, "FileNotFoundError")
    ELSE st

update_ssh_config(st, ssh_port) ==
    LET st0 == IF ~st.sshd_config.exists
               THEN print_error(st, "SSH", "SSH config file not found: {}",
                                ssh_config_file, TRUE)
               ELSE st
        st1 == read_ssh_config(st0)
        r == scan_lines(readlines(st.sshd_config.content), 1, ssh_port, default_ssh_port)
    IN  IF ~ok(st) THEN st
        ELSE IF ~ok(st1) THEN st1
        ELSE IF r.current_port = default_ssh_port
        THEN print_info(
                 restart_sshd(
                     print_info(write_ssh_config(st1, r.lines), "SSH",
                                "SSH server port changed to {}", str_of_int(ssh_port))),
                 "SSH", "SSH server restarted.", "")
        ELSE print_warning(st1, "SSH", "Port is already set to {}, proceeding...",
                           r.current_port)

----------------------------------------------------------------------------
(* Orchestrator *)

\* main, after check_os and check_root have passed (Linux, run as root)
main(st, user, folder, ssh_port) ==
    update_ssh_config(
        generate_ssh_key_pair(
            create_deployment_folder(
                create_user(
                    create_group(print_info(st, "INFO", "Starting setup...", ""),
                                 GROUP),
                    user, GROUP),
                folder, user),
            user),
        ssh_port)

----------------------------------------------------------------------------
(* Invocations *)

\* the host resources, as a record
Host ==
    [groups |-> groups, users |-> users, member |-> member, fs |-> fs,
     sshd_config |-> sshd_config, keygens |-> keygens]

host_of(st) ==
    [groups |-> st.groups, users |-> st.users, member |-> st.member, fs |-> st.fs,
     sshd_config |-> st.sshd_config, keygens |-> st.keygens]

\* a fresh process on the host as it is
Start ==
    [groups |-> groups, users |-> users, member |-> member, fs |-> fs,
     sshd_config |-> sshd_config, keygens |-> keygens,
     out |-> <<>>, cmds |-> <<>>, status |-> "ok"]

\* the invocations of the script that run statement by statement
Procs == {"p", "q"}

\* a process that is not running
Idle ==
    [pc |-> "idle", at |-> "idle", user |-> "", folder |-> "", port |-> 0,
     out |-> <<>>, cmds |-> <<>>, status |-> "ok",
     scan |-> [lines |-> <<>>, current_port |-> <<>>],
     pre |-> [groups |-> {}, users |-> {}, member |-> {},
              fs |-> [p \in Paths |-> Absent],
              sshd_config |-> [exists |-> FALSE, content |-> <<>>],
              keygens |-> 0]]

NoProcs == [p \in Procs |-> Idle]

\* one invocation, from start to return or death: the host takes the
\* state the process left, the invocation is recorded in calls
Invoke(op, user, group, folder, port, st) ==
    /\ Len(calls) < MaxCalls
    /\ groups' = st.groups
    /\ users' = st.users
    /\ member' = st.member
    /\ fs' = st.fs
    /\ sshd_config' = st.sshd_config
    /\ keygens' = st.keygens
    /\ calls' = Append(calls,
                       [op |-> op, user |-> user, group |-> group,
                        folder |-> folder, port |-> port,
                        pre |-> Host, post |-> host_of(st),
                        out |-> st.out, cmds |-> st.cmds, status |-> st.status])
    /\ UNCHANGED procs

CallCreateGroup ==
    \E g \in Groups : Invoke("create_group", "", g, "", 0, create_group(Start, g))

CallCreateUser ==
    \E u \in Users, g \in Groups :
        Invoke("create_user", u, g, "", 0, create_user(Start, u, g))

CallCreateDeploymentFolder ==
    \E f \in Folders, u \in Users :
        Invoke("create_deployment_folder", u, "", f, 0,
               create_deployment_folder(Start, f, u))

CallGenerateSshKeyPair ==
    \E u \in Users :
        Invoke("generate_ssh_key_pair", u, "", "", 0, generate_ssh_key_pair(Start, u))

CallUpdateSshConfig ==
    \E p \in Ports : Invoke("update_ssh_config", "", "", "", p, update_ssh_config(Start, p))

\* the user a run of the whole script is given
MainUser == "deploy"

MainFolder == "app"

RunMain ==
    \E p \in Ports :
        Invoke("main", MainUser, GROUP, MainFolder, p, main(Start, MainUser, MainFolder, p))

----------------------------------------------------------------------------
(* Initial hosts *)

\* sample lines of an sshd_config
line_commented_default == <<"#", "P", "o", "r", "t", " ", "2", "2", "\n">>

line_port_22 == <<"P", "o", "r", "t", " ", "2", "2", "\n">>

line_port_8080 == <<"P", "o", "r", "t", " ", "8", "0", "8", "0", "\n">>

line_other == <<"U", "s", "e", "P", "A", "M", " ", "y", "e", "s", "\n">>

line_commented_2222 == <<"#", "p", "o", "r", "t", " ", "2", "2", "2", "2", "\n">>

line_port_tab_22 == <<"P", "o", "r", "t", "\t", "2", "2", "\n">>

line_port_spaces_22 == <<"P", "O", "R", "T", " ", " ", "2", "2", "\n">>

LineSamples ==
    {line_commented_default, line_port_22, line_port_8080, line_other,
     line_commented_2222, line_port_tab_22, line_port_spaces_22}

RECURSIVE LineSeqs(_)
LineSeqs(n) ==
    IF n = 0 THEN {<<>>}
    ELSE LineSeqs(n - 1)
         \cup {Append(ls, l) : ls \in {x \in LineSeqs(n - 1) : Len(x) = n - 1},
                               l \in LineSamples}

\* sshd_config as a file with a content, or no file
config_file(content) == [exists |-> TRUE, content |-> content]

no_config_file == [exists |-> FALSE, content |-> <<>>]

\* the sshd_config files the model starts from
ConfigSamples == {config_file(writelines(ls)) : ls \in LineSeqs(MaxLines)}

fresh_config == config_file(writelines(<<line_other, line_commented_default>>))

\* a filesystem with nothing but the directory outside the layout
EmptyFs == [p \in Paths |-> IF p = OtherDir THEN Dir("root", "755") ELSE Absent]

\* the filesystem with the entries of the function es put at their paths
with_entries(files, es) == [p \in Paths |-> IF p \in DOMAIN es THEN es[p] ELSE files[p]]

homes_of(us) == [p \in {home_dir(u) : u \in us} |-> Dir(CHOOSE u \in us : home_dir(u) = p, "750")]

InitIdentity ==
    /\ groups \in SUBSET Groups
    /\ users \in SUBSET Users
    /\ member \in SUBSET (users \X groups)
    /\ fs = with_entries(EmptyFs, homes_of(users))
    /\ sshd_config = fresh_config
    /\ keygens = 0
    /\ calls = <<>>
    /\ procs = NoProcs

NextIdentity == CallCreateGroup \/ CallCreateUser

SpecIdentity == InitIdentity /\ [][NextIdentity]_vars

InitSsh ==
    /\ groups = {}
    /\ users = {}
    /\ member = {}
    /\ fs = EmptyFs
    /\ sshd_config \in {no_config_file} \cup ConfigSamples
    /\ keygens = 0
    /\ calls = <<>>
    /\ procs = NoProcs

NextSsh == CallUpdateSshConfig

SpecSsh == InitSsh /\ [][NextSsh]_vars

\* what may be at /opt/<folder> before the first call
OptSamples == {Absent, Dir("root", "755"), File("root", "644", <<>>)}

\* what may be at /home/<user>/<folder> before the first call: nothing, the
\* right link, a link to another directory, a link that leads nowhere, a
\* regular file, a directory
HomeEntrySamples(folder) ==
    {Absent, Link("root", opt_path(folder)), Link("root", OtherDir),
     Link("root", MissingPath), File("root", "644", <<>>), Dir("root", "755")}

\* the layouts of one user: no home directory and nothing in it, or a home
\* directory and any of the entries
UserLayouts(u) ==
    {[p \in {home_dir(u)} \cup {home_path(u, f) : f \in Folders} |-> Absent]}
    \cup {[p \in {home_dir(u)} \cup {home_path(u, f) : f \in Folders} |->
              IF p = home_dir(u) THEN Dir(u, "750") ELSE es[p]] :
          es \in [{home_path(u, f) : f \in Folders}
                    -> UNION {HomeEntrySamples(f) : f \in Folders}]}

InitLayout ==
    /\ groups = {GROUP}
    /\ users \in SUBSET Users
    /\ member = {}
    /\ \E opts \in [{opt_path(f) : f \in Folders} -> OptSamples],
          lay \in [Users -> UNION {UserLayouts(u) : u \in Users}] :
          /\ \A u \in Users : lay[u] \in UserLayouts(u)
          /\ fs = [p \in Paths |->
                     IF p \in DOMAIN opts THEN opts[p]
                     ELSE IF \E u \in Users : p \in DOMAIN lay[u]
                     THEN lay[CHOOSE u \in Users : p \in DOMAIN lay[u]][p]
                     ELSE EmptyFs[p]]
    /\ sshd_config = fresh_config
    /\ keygens = 0
    /\ calls = <<>>
    /\ procs = NoProcs

NextLayout == CallCreateDeploymentFolder

SpecLayout == InitLayout /\ [][NextLayout]_vars

\* the key material of a user before the first call: the entries of
\* /home/<user>/.ssh ; a key pair that exists was generated as key 1
KeySamples(u) ==
    LET at(dir, key, pub, auth) ==
            [p \in {ssh_dir(u), ssh_key_path(u), ssh_pub_key_path(u),
                    authorized_keys_path(u)} |->
                IF p = ssh_dir(u) THEN dir
                ELSE IF p = ssh_key_path(u) THEN key
                ELSE IF p = ssh_pub_key_path(u) THEN pub
                ELSE auth]
        d == Dir(u, "700")
        k == File(u, "600", <<1>>)
        pk == File(u, "644", <<1>>)
    IN  {at(Absent, Absent, Absent, Absent),
         at(d, Absent, Absent, Absent),
         at(d, k, pk, Absent),
         at(d, k, pk, File(u, "644", <<>>)),
         at(d, k, pk, File(u, "600", <<1>>)),
         at(d, k, Absent, Absent),
         at(d, k, Absent, File(u, "600", <<1>>)),
         at(d, Absent, pk, File(u, "644", <<>>)),
         at(d, Absent, pk, Absent)}

InitKeys ==
    /\ groups = {GROUP}
    /\ users \in SUBSET Users
    /\ member = {}
    /\ \E ks \in [Users -> UNION {KeySamples(u) : u \in Users}] :
          /\ \A u \in Users : ks[u] \in KeySamples(u)
          /\ fs = [p \in Paths |->
                     IF \E u \in Users : p \in DOMAIN ks[u]
                     THEN ks[CHOOSE u \in Users : p \in DOMAIN ks[u]][p]
                     ELSE IF \E u \in Users : p = home_dir(u)
                     THEN Dir(CHOOSE u \in Users : p = home_dir(u), "750")
                     ELSE EmptyFs[p]]
    /\ sshd_config = fresh_config
    /\ keygens = 1
    /\ calls = <<>>
    /\ procs = NoProcs

NextKeys == CallGenerateSshKeyPair

SpecKeys == InitKeys /\ [][NextKeys]_vars

\* the hosts a run of the whole script may find: the group and the user
\* there or not, the layout there or not (or the home entry leading
\* elsewhere), the key material, an sshd_config of at most one line or none
Init ==
    /\ groups \in SUBSET {GROUP}
    /\ users \in SUBSET {MainUser}
    /\ member \in SUBSET (users \X groups)
    /\ \E opt \in {Absent, Dir("root", "755")},
          home \in {Absent, Link("root", opt_path(MainFolder)), Link("root", OtherDir)},
          ks \in KeySamples(MainUser) :
          fs = IF users = {}
               THEN [EmptyFs EXCEPT ![opt_path(MainFolder)] = opt]
               ELSE [p \in Paths |->
                       IF p = opt_path(MainFolder) THEN opt
                       ELSE IF p = home_dir(MainUser) THEN Dir(MainUser, "750")
                       ELSE IF p = home_path(MainUser, MainFolder) THEN home
                       ELSE IF p \in DOMAIN ks THEN ks[p]
                       ELSE EmptyFs[p]]
    /\ sshd_config \in {no_config_file}
                         \cup {config_file(writelines(ls)) : ls \in LineSeqs(1)}
    /\ keygens = 1
    /\ calls = <<>>
    /\ procs = NoProcs

Next == RunMain

Spec == Init /\ [][Next]_vars

----------------------------------------------------------------------------
(* The script, statement by statement: a process holds its position pc in
   main, its console lines, the commands it issued and its status; every
   statement acts on the host as it is when the statement runs *)

\* the process state a statement of process pr starts from
frame(pr) ==
    [Start EXCEPT !.out = pr.out, !.cmds = pr.cmds, !.status = pr.status]

\* the statement at pr.pc, acting on st: the process state it leaves, the
\* statement that follows and the result of the scan of sshd_config
statement(pr, st) ==
    LET go(st1, pc) == [st |-> st1, pc |-> pc, scan |-> pr.scan]
        user == pr.user
        destination == opt_path(pr.folder)
        home_destination == home_path(pr.user, pr.folder)
        authorized_keys == authorized_keys_path(pr.user)
    IN  CASE pr.pc = "start" ->
                go(print_info(st, "INFO", "Starting setup...", ""), "getgrnam")
          [] pr.pc = "getgrnam" ->
                IF GROUP \in st.groups
                THEN go(print_warning(st, "GROUP", "{} already exists, proceeding...",
                                      GROUP), "getpwnam")
                ELSE go(st, "groupadd")
          [] pr.pc = "groupadd" ->
                go(print_info(groupadd(st, GROUP), "GROUP", "{} created.", GROUP),
                   "getpwnam")
          [] pr.pc = "getpwnam" ->
                IF user \in st.users
                THEN go(print_warning(st, "USER", "{} already exists, proceeding...",
                                      user), "makedirs")
                ELSE go(st, "useradd")
          [] pr.pc = "useradd" -> go(useradd(st, user), "usermod")
          [] pr.pc = "usermod" ->
                go(print_info(usermod_aG(st, GROUP, user), "USER", "{} created.", user),
                   "makedirs")
          [] pr.pc = "makedirs" -> go(create_folder(st, destination), "symlink")
          [] pr.pc = "symlink" ->
                go(create_symlink(st, destination, home_destination), "chown_opt")
          [] pr.pc = "chown_opt" -> go(chown_folder(st, destination, user), "chown_home")
          [] pr.pc = "chown_home" ->
                go(chown_folder(st, home_destination, user), "isfile_key")
          [] pr.pc = "isfile_key" ->
                IF isfile(st.fs, ssh_key_path(user))
                THEN go(print_warning(st, "USER",
                                      "SSH key pair already exists, proceeding...", ""),
                        "isfile_auth")
                ELSE go(st, "ssh_keygen")
          [] pr.pc = "ssh_keygen" ->
                go(print_info(ssh_keygen(st, user), "USER", "SSH key pair generated.", ""),
                   "isfile_auth")
          [] pr.pc = "isfile_auth" ->
                IF isfile(st.fs, authorized_keys)
                THEN go(print_warning(st, "USER",
                            "*authorized_keys* file already exists, proceeding...", ""),
                        "append")
                ELSE go(st, "touch")
          [] pr.pc = "touch" -> go(create_file(st, authorized_keys), "chmod")
          [] pr.pc = "chmod" ->
                go(print_info(chmod_file(st, authorized_keys, "600"),
                              "USER", "*authorized_keys* file created.", ""),
                   "append")
          [] pr.pc = "append" -> go(append_public_key(st, user), "isfile_config")
          [] pr.pc = "isfile_config" ->
                IF ~st.sshd_config.exists
                THEN go(print_error(st, "SSH", "SSH config file not found: {}",
                                    ssh_config_file, TRUE), "readlines")
                ELSE go(st, "readlines")
          [] pr.pc = "readlines" ->
                LET st1 == read_ssh_config(st)
                    r == scan_lines(readlines(st.sshd_config.content), 1, pr.port,
                                    default_ssh_port)
                IN  IF ~ok(st1) THEN go(st1, "write")
                    ELSE IF r.current_port = default_ssh_port
                    THEN [st |-> st1, pc |-> "write", scan |-> r]
                    ELSE go(print_warning(st1, "SSH",
                                "Port is already set to {}, proceeding...",
                                r.current_port), "done")
          [] pr.pc = "write" ->
                go(print_info(write_ssh_config(st, pr.scan.lines), "SSH",
                              "SSH server port changed to {}", str_of_int(pr.port)),
                   "restart")
          [] pr.pc = "restart" ->
                go(print_info(restart_sshd(st), "SSH", "SSH server restarted.", ""),
                   "done")

\* the processes that are between their first statement and their exit
active == {p \in Procs : procs[p].pc # "idle"}

\* python3 setup.py --user user --folder folder --ssh-port ssh_port
Begin(p, user, folder, ssh_port) ==
    /\ procs[p].pc = "idle"
    /\ Len(calls) + Cardinality(active) < MaxCalls
    /\ procs' = [procs EXCEPT ![p] =
                    [Idle EXCEPT !.pc = "start", !.at = "start", !.user = user,
                                 !.folder = folder, !.port = ssh_port, !.pre = Host]]
    /\ UNCHANGED <<groups, users, member, fs, sshd_config, keygens, calls>>

\* Step in which a statement that raised does not stop the process: the
\* statements that follow are run
Step_goes_on(p) ==
    /\ procs[p].pc \notin {"idle", "done", "dead"}
    /\ LET r == statement(procs[p], frame(procs[p]))
       IN  /\ groups' = r.st.groups
           /\ users' = r.st.users
           /\ member' = r.st.member
           /\ fs' = r.st.fs
           /\ sshd_config' = r.st.sshd_config
           /\ keygens' = r.st.keygens
           /\ procs' = [procs EXCEPT ![p] =
                           [@ EXCEPT !.pc = r.pc,
                                     !.at = IF ok(frame(procs[p])) THEN
                                               IF ok(r.st) THEN r.pc ELSE procs[p].pc
                                            ELSE @,
                                     !.out = r.st.out, !.cmds = r.st.cmds,
                                     !.status = r.st.status, !.scan = r.scan]]
    /\ UNCHANGED calls

\* process p runs its next statement; a process that died stays where it
\* died
Step(p) ==
    /\ procs[p].pc \notin {"idle", "done", "dead"}
    /\ LET r == statement(procs[p], frame(procs[p]))
       IN  /\ groups' = r.st.groups
           /\ users' = r.st.users
           /\ member' = r.st.member
           /\ fs' = r.st.fs
           /\ sshd_config' = r.st.sshd_config
           /\ keygens' = r.st.keygens
           /\ procs' = [procs EXCEPT ![p] =
                           [@ EXCEPT !.pc = IF ok(r.st) THEN r.pc ELSE "dead",
                                     !.at = IF ok(r.st) THEN r.pc ELSE procs[p].pc,
                                     !.out = r.st.out, !.cmds = r.st.cmds,
                                     !.status = r.st.status, !.scan = r.scan]]
    /\ UNCHANGED calls

\* the process is gone: its run is recorded in calls
Exit(p) ==
    /\ procs[p].pc \in {"done", "dead"}
    /\ calls' = Append(calls,
                       [op |-> "run", user |-> procs[p].user, group |-> GROUP,
                        folder |-> procs[p].folder, port |-> procs[p].port,
                        pre |-> procs[p].pre, post |-> Host,
                        out |-> procs[p].out, cmds |-> procs[p].cmds,
                        status |-> procs[p].status, at |-> procs[p].at])
    /\ procs' = [procs EXCEPT ![p] = Idle]
    /\ UNCHANGED <<groups, users, member, fs, sshd_config, keygens>>

\* runs that were interrupted, gone or not
interrupted ==
    Cardinality({i \in DOMAIN calls : calls[i].status = "KeyboardInterrupt"})
    + Cardinality({p \in Procs : procs[p].status = "KeyboardInterrupt"})

\* the process is interrupted (Ctrl-C, kill) before its next statement
Interrupt(p) ==
    /\ procs[p].pc \notin {"idle", "done", "dead"}
    /\ interrupted < MaxInterrupts
    /\ procs' = [procs EXCEPT ![p] =
                    [@ EXCEPT !.pc = "dead", !.status = "KeyboardInterrupt"]]
    /\ UNCHANGED <<groups, users, member, fs, sshd_config, keygens, calls>>

\* the hosts of the statement-level runs: the group there or not; no user,
\* a user without home directory, or a user with home directory and any
\* of the key materials; sshd_config missing, fresh, or with another port
InitRuns ==
    /\ groups \in SUBSET {GROUP}
    /\ users \in SUBSET {MainUser}
    /\ member \in SUBSET (users \X groups)
    /\ \E ks \in KeySamples(MainUser), home \in BOOLEAN :
          fs = IF users = {} \/ ~home THEN EmptyFs
               ELSE [p \in Paths |->
                       IF p = home_dir(MainUser) THEN Dir(MainUser, "750")
                       ELSE IF p \in DOMAIN ks THEN ks[p]
                       ELSE EmptyFs[p]]
    /\ sshd_config \in {no_config_file, fresh_config,
                         config_file(writelines(<<line_port_8080>>))}
    /\ keygens = 1
    /\ calls = <<>>
    /\ procs = NoProcs

\* one invocation at a time, each run to its end
NextRuns ==
    \/ \E port \in {2222, 8080} : Begin("p", MainUser, MainFolder, port)
    \/ Step("p")
    \/ Exit("p")

SpecRuns == InitRuns /\ [][NextRuns]_vars

\* a host on which nothing was provisioned, sshd_config as shipped
InitFresh ==
    /\ groups = {}
    /\ users = {}
    /\ member = {}
    /\ fs = EmptyFs
    /\ sshd_config = fresh_config
    /\ keygens = 0
    /\ calls = <<>>
    /\ procs = NoProcs

\* one invocation at a time, which may be interrupted between two
\* statements
NextInterrupted ==
    \/ Begin("p", MainUser, MainFolder, 2222)
    \/ Step("p")
    \/ Interrupt("p")
    \/ Exit("p")

SpecInterrupted == InitFresh /\ [][NextInterrupted]_vars

\* two invocations at once, their statements interleaved: an invocation
\* begins before the other is over
NextConcurrent ==
    \/ \E p \in Procs : calls = <<>> /\ Begin(p, MainUser, MainFolder, 2222)
    \/ \E p \in Procs : Step(p)
    \/ \E p \in Procs : Exit(p)

SpecConcurrent == InitFresh /\ [][NextConcurrent]_vars

----------------------------------------------------------------------------
(* Vocabulary of the properties *)

Calls == DOMAIN calls

\* how many of the commands a call issued are of a kind
count_cmds(cmds, kind) == Cardinality({n \in DOMAIN cmds : cmds[n][1] = kind})

\* the call printed nothing but this line
said_only(c, color, category, fmt, arg) ==
    /\ Len(c.out) = 1
    /\ c.out[1].color = color
    /\ c.out[1].category = category
    /\ c.out[1].fmt = fmt
    /\ c.out[1].arg = arg

\* the words of a line, as sshd reads it: separated by blanks and tabs
RECURSIVE words_from(_, _)
words_from(s, word) ==
    IF s = <<>> THEN (IF word = <<>> THEN <<>> ELSE <<word>>)
    ELSE IF str_is_space(Head(s))
         THEN (IF word = <<>> THEN <<>> ELSE <<word>>) \o words_from(Tail(s), <<>>)
         ELSE words_from(Tail(s), Append(word, Head(s)))

words(line) == words_from(line, <<>>)

\* an active Port directive, as sshd reads it: keyword Port in any case,
\* then a value
is_port_directive(line) ==
    LET ws == words(line)
    IN  Len(ws) >= 2 /\ str_lower(ws[1]) = <<"p", "o", "r", "t">>

port_value(line) == words(line)[2]

\* the effective port of a configuration: the value of its first active
\* Port directive, 22 when it has none
RECURSIVE effective_port_of(_)
effective_port_of(lines) ==
    IF lines = <<>> THEN <<"2", "2">>
    ELSE IF is_port_directive(Head(lines)) THEN port_value(Head(lines))
    ELSE effective_port_of(Tail(lines))

effective_port(config) == effective_port_of(readlines(config.content))

\* the first line that the scan of update_ssh_config stops at, 0 when none
first_port_line(lines) ==
    LET stops == {k \in DOMAIN lines :
                     is_commented_default(lines[k]) \/ is_active_port(lines[k])}
    IN  IF stops = {} THEN 0 ELSE CHOOSE k \in stops : \A j \in stops : k <= j

\* the lines of the configuration a call started from
pre_lines(c) == readlines(c.pre.sshd_config.content)

is_reconfigure(c) == c.op = "update_ssh_config" /\ c.pre.sshd_config.exists

----------------------------------------------------------------------------
(* SSH listener: properties *)

\* C3: for every existing sshd_config and every target port p other than
\* 22, after update_ssh_config(p) returns the effective port of the
\* configuration is not the default 22.
C3_EffectivePortNotDefault ==
    \A i \in Calls :
        (is_reconfigure(calls[i]) /\ calls[i].port # 22 /\ calls[i].status = "ok")
            => effective_port(calls[i].post.sshd_config) # default_ssh_port

\* C4: over any sequence of update_ssh_config calls on an existing
\* sshd_config the file is written at most once in total, and the daemon
\* is restarted only in a call in which the content of the file changed.
C4_WrittenOnceRestartOnlyOnChange ==
    /\ \A i, j \in Calls :
           (/\ is_reconfigure(calls[i]) /\ is_reconfigure(calls[j])
            /\ count_cmds(calls[i].cmds, "write") > 0
            /\ count_cmds(calls[j].cmds, "write") > 0) => i = j
    /\ \A i \in Calls :
           (is_reconfigure(calls[i]) /\ count_cmds(calls[i].cmds, "restart") > 0)
               => calls[i].post.sshd_config # calls[i].pre.sshd_config

\* the first line the scan stops at is the commented default "#Port 22"
starts_commented_default(c) ==
    /\ is_reconfigure(c)
    /\ LET lines == pre_lines(c)
           k == first_port_line(lines)
       IN  k # 0 /\ str_strip(str_lower(lines[k])) = commented_port_prefix

\* C5: on an sshd_config whose first port line is the commented default
\* "#Port 22", update_ssh_config(p) with p other than 22 replaces exactly
\* that line by "Port p", writes the file once and restarts the daemon
\* once; every later update_ssh_config(q) writes nothing, restarts nothing
\* and reports the port as already set to p.
C5_CommentedDefaultRewrittenOnce ==
    \A i \in Calls :
        (starts_commented_default(calls[i]) /\ calls[i].port # 22) =>
            /\ calls[i].status = "ok"
            /\ LET lines == pre_lines(calls[i])
               IN  readlines(calls[i].post.sshd_config.content)
                       = [lines EXCEPT ![first_port_line(lines)]
                              = <<"P", "o", "r", "t", " ">> \o str_of_int(calls[i].port)
                                    \o <<"\n">>]
            /\ calls[i].cmds = <<<<"write", ssh_config_file>>, <<"restart", "sshd">>>>
            /\ \A j \in Calls :
                   (j > i /\ calls[j].op = "update_ssh_config") =>
                       /\ calls[j].cmds = <<>>
                       /\ calls[j].post = calls[j].pre
                       /\ calls[j].status = "ok"
                       /\ said_only(calls[j], "yellow", "SSH",
                                    "Port is already set to {}, proceeding...",
                                    str_of_int(calls[i].port))

C5_Witness ==
    /\ Len(calls) >= 2
    /\ calls[1].pre.sshd_config.content = line_other \o line_commented_default
    /\ calls[1].port = 2222
    /\ calls[1].post.sshd_config.content
           = line_other \o <<"P", "o", "r", "t", " ", "2", "2", "2", "2", "\n">>
    /\ calls[2].port = 8080
    /\ calls[2].cmds = <<>>

\* the first line the scan stops at is an active Port directive whose
\* value is not 22
starts_customized(c) ==
    /\ is_reconfigure(c)
    /\ LET lines == pre_lines(c)
           k == first_port_line(lines)
       IN  /\ k # 0
           /\ is_active_port(lines[k])
           /\ is_port_directive(lines[k])
           /\ port_value(lines[k]) # <<"2", "2">>

\* C6: when the first matching line of sshd_config is an active Port
\* directive with a value other than 22, update_ssh_config(p) leaves the
\* file as it is and does not restart the daemon, for every p, also when a
\* commented "#Port 22" comes later in the file.
C6_CustomizedLeftUntouched ==
    \A i \in Calls :
        starts_customized(calls[i]) =>
            /\ calls[i].post = calls[i].pre
            /\ calls[i].cmds = <<>>
            /\ calls[i].status = "ok"

C6_Witness ==
    \E i \in Calls :
        /\ calls[i].op = "update_ssh_config"
        /\ calls[i].pre.sshd_config.content = line_port_8080 \o line_commented_default
        /\ calls[i].port = 2222
        /\ calls[i].post.sshd_config.content = line_port_8080 \o line_commented_default

\* C7: without an sshd_config file update_ssh_config ends the process with
\* a non-zero exit status, creates and writes no file and does not restart
\* the daemon.
C7_MissingConfigIsFatal ==
    \A i \in Calls :
        (calls[i].op = "update_ssh_config" /\ ~calls[i].pre.sshd_config.exists) =>
            /\ calls[i].status = "SystemExit(1)"
            /\ exit_status(calls[i].status) # 0
            /\ calls[i].post = calls[i].pre
            /\ ~calls[i].post.sshd_config.exists
            /\ calls[i].cmds = <<>>
            /\ said_only(calls[i], "red", "SSH", "SSH config file not found: {}",
                         ssh_config_file)

C7_Witness ==
    \E i \in Calls :
        /\ calls[i].op = "update_ssh_config"
        /\ ~calls[i].pre.sshd_config.exists
        /\ calls[i].status = "SystemExit(1)"
        /\ ~sshd_config.exists

----------------------------------------------------------------------------
(* Identity: properties *)

\* C2: for every prior state of the user database (u absent, u present and
\* in g, u present and not in g), after create_user(u, g) returns u exists
\* and is a member of g.
C2_UserIsMemberAfterCreateUser ==
    \A i \in Calls :
        (/\ calls[i].op = "create_user"
         /\ calls[i].status = "ok"
         /\ calls[i].group \in calls[i].pre.groups) =>
            /\ calls[i].user \in calls[i].post.users
            /\ <<calls[i].user, calls[i].group>> \in calls[i].post.member

\* calls i and i + 1 are create_group of the same group
twice_create_group(i) ==
    /\ i \in Calls
    /\ i + 1 \in Calls
    /\ calls[i].op = "create_group"
    /\ calls[i + 1].op = "create_group"
    /\ calls[i].group = calls[i + 1].group

\* C10: create_group(g) called twice in sequence issues the creation of g
\* once when g was absent and never when g was present; g exists
\* afterwards; the second call takes the "already exists" branch and
\* leaves the group database and the memberships as they are.
C10_GroupCreatedOnce ==
    \A i \in Calls :
        twice_create_group(i) =>
            /\ count_cmds(calls[i].cmds, "groupadd")
                   + count_cmds(calls[i + 1].cmds, "groupadd")
                   = (IF calls[i].group \in calls[i].pre.groups THEN 0 ELSE 1)
            /\ calls[i].group \in calls[i + 1].post.groups
            /\ calls[i + 1].cmds = <<>>
            /\ calls[i + 1].post = calls[i + 1].pre
            /\ said_only(calls[i + 1], "yellow", "GROUP",
                         "{} already exists, proceeding...", calls[i].group)

C10_Witness ==
    /\ twice_create_group(1)
    /\ calls[1].group = GROUP
    /\ GROUP \notin calls[1].pre.groups
    /\ calls[1].cmds = <<<<"groupadd", GROUP>>>>
    /\ calls[2].cmds = <<>>
    /\ GROUP \in groups

----------------------------------------------------------------------------
(* Deployment layout: properties *)

\* the owner of what a path leads to, "" when it leads nowhere
owner_of(files, path) ==
    IF resolve(files, path) = NoFile THEN "" ELSE files[resolve(files, path)].owner

\* C8: for every prior state of the two paths (nothing there; /opt/f a
\* directory; any entry at /home/u/f), after create_deployment_folder(f, u)
\* returns /opt/f is a directory, /home/u/f is a symbolic link to /opt/f
\* and both paths are owned by u.
C8_LayoutEstablished ==
    \A i \in Calls :
        (/\ calls[i].op = "create_deployment_folder"
         /\ calls[i].status = "ok"
         /\ calls[i].user \in calls[i].pre.users
         /\ calls[i].pre.fs[opt_path(calls[i].folder)].kind \in {"none", "dir"}) =>
            LET files == calls[i].post.fs
                opt == opt_path(calls[i].folder)
                home == home_path(calls[i].user, calls[i].folder)
            IN  /\ files[opt].kind = "dir"
                /\ files[home].kind = "link"
                /\ files[home].target = opt
                /\ files[opt].owner = calls[i].user
                /\ owner_of(files, home) = calls[i].user

\* calls i and i + 1 are create_deployment_folder of the same folder and
\* user
twice_create_deployment_folder(i) ==
    /\ i \in Calls
    /\ i + 1 \in Calls
    /\ calls[i].op = "create_deployment_folder"
    /\ calls[i + 1].op = "create_deployment_folder"
    /\ calls[i].folder = calls[i + 1].folder
    /\ calls[i].user = calls[i + 1].user

\* C9: create_deployment_folder is idempotent: a second call for the same
\* folder and user leaves the filesystem as the first call left it and
\* creates nothing; when the first call returned, the second returns too
\* and reports "already exists" for the directory and for the symbolic
\* link.
C9_LayoutIdempotent ==
    \A i \in Calls :
        twice_create_deployment_folder(i) =>
            /\ calls[i + 1].post = calls[i + 1].pre
            /\ count_cmds(calls[i + 1].cmds, "makedirs") = 0
            /\ count_cmds(calls[i + 1].cmds, "symlink") = 0
            /\ calls[i].status = "ok" =>
                   /\ calls[i + 1].status = "ok"
                   /\ Len(calls[i + 1].out) = 4
                   /\ calls[i + 1].out[1].color = "yellow"
                   /\ calls[i + 1].out[1].category = "FOLDER"
                   /\ calls[i + 1].out[1].fmt = "{} already exists, proceeding..."
                   /\ calls[i + 1].out[1].arg = opt_path(calls[i].folder)
                   /\ calls[i + 1].out[2].color = "yellow"
                   /\ calls[i + 1].out[2].category = "SYMLINK"
                   /\ calls[i + 1].out[2].fmt = "{} already exists, proceeding..."
                   /\ calls[i + 1].out[2].arg = home_path(calls[i].user, calls[i].folder)

C9_Witness ==
    /\ twice_create_deployment_folder(1)
    /\ calls[1].user \in calls[1].pre.users
    /\ ~lexists(calls[1].pre.fs, opt_path(calls[1].folder))
    /\ ~lexists(calls[1].pre.fs, home_path(calls[1].user, calls[1].folder))
    /\ count_cmds(calls[1].cmds, "makedirs") = 1
    /\ count_cmds(calls[1].cmds, "symlink") = 1
    /\ calls[2].status = "ok"
    /\ fs[home_path(calls[1].user, calls[1].folder)]
           = Link("root", opt_path(calls[1].folder))
    /\ fs[opt_path(calls[1].folder)].owner = calls[1].user

----------------------------------------------------------------------------
(* Orchestrator: properties *)

\* C1: a second complete run of main on the host a completed run left, with
\* any target port, ends with exit status zero, leaves the whole host as it
\* is (group and user database, /opt/<folder>, the home symlink, the key
\* pair, authorized_keys, sshd_config) and does not restart the daemon.
C1_SecondRunChangesNothing ==
    \A i \in Calls :
        (/\ i + 1 \in Calls
         /\ calls[i].op = "main"
         /\ calls[i + 1].op = "main"
         /\ calls[i].status = "ok") =>
            /\ exit_status(calls[i + 1].status) = 0
            /\ calls[i + 1].post = calls[i + 1].pre
            /\ count_cmds(calls[i + 1].cmds, "restart") = 0

----------------------------------------------------------------------------
(* Key material: properties *)

\* a run of the key-material step for a user that exists
is_key_step(c) == c.op = "generate_ssh_key_pair" /\ c.user \in c.pre.users

\* C11: over the runs of the key-material step for a user, ssh-keygen is
\* invoked in a run if and only if the private key file is absent when the
\* run starts (whether the public key file is there or not), so at most
\* once over all the runs, and a private key that exists is never
\* overwritten.
C11_KeyGeneratedAtMostOnce ==
    \A i \in Calls :
        is_key_step(calls[i]) =>
            LET key == ssh_key_path(calls[i].user)
            IN  /\ count_cmds(calls[i].cmds, "ssh-keygen")
                       = (IF isfile(calls[i].pre.fs, key) THEN 0 ELSE 1)
                /\ isfile(calls[i].pre.fs, key)
                       => calls[i].post.fs[key] = calls[i].pre.fs[key]
                /\ \A j \in Calls :
                       (/\ j > i
                        /\ calls[j].op = "generate_ssh_key_pair"
                        /\ calls[j].user = calls[i].user) =>
                           /\ count_cmds(calls[j].cmds, "ssh-keygen") = 0
                           /\ calls[j].post.fs[key] = calls[i].post.fs[key]

C11_Witness ==
    /\ Len(calls) >= 2
    /\ is_key_step(calls[1])
    /\ calls[2].op = "generate_ssh_key_pair"
    /\ calls[2].user = calls[1].user
    /\ ~isfile(calls[1].pre.fs, ssh_key_path(calls[1].user))
    /\ isfile(calls[1].pre.fs, ssh_pub_key_path(calls[1].user))
    /\ count_cmds(calls[1].cmds, "ssh-keygen") = 1
    /\ count_cmds(calls[2].cmds, "ssh-keygen") = 0
    /\ fs[ssh_key_path(calls[1].user)].data = <<2>>

\* n times the data, one after the other
RECURSIVE copies(_, _)
copies(data, n) == IF n = 0 THEN <<>> ELSE data \o copies(data, n - 1)

\* the runs of the key-material step for a user that returned
completed_key_steps(u) ==
    {i \in Calls : /\ calls[i].op = "generate_ssh_key_pair"
                   /\ calls[i].user = u
                   /\ calls[i].status = "ok"}

\* C12: the public key is appended in every run and not deduplicated:
\* starting without authorized_keys file, after n >= 1 completed runs of
\* the key-material step the file holds n copies of the public key; and a
\* run never removes or rewrites what the file held (it only appends).
C12_KeyAppendedEveryRun ==
    /\ \A u \in Users :
           (/\ Len(calls) >= 1
            /\ ~lexists(calls[1].pre.fs, authorized_keys_path(u))
            /\ completed_key_steps(u) # {}) =>
               /\ isfile(fs, ssh_pub_key_path(u))
               /\ isfile(fs, authorized_keys_path(u))
               /\ fs[ssh_pub_key_path(u)].data # <<>>
               /\ fs[authorized_keys_path(u)].data
                      = copies(fs[ssh_pub_key_path(u)].data,
                               Cardinality(completed_key_steps(u)))
    /\ \A i \in Calls :
           (/\ calls[i].op = "generate_ssh_key_pair"
            /\ isfile(calls[i].pre.fs, authorized_keys_path(calls[i].user))) =>
               LET before == calls[i].pre.fs[authorized_keys_path(calls[i].user)].data
                   after == calls[i].post.fs[authorized_keys_path(calls[i].user)].data
               IN  /\ isfile(calls[i].post.fs, authorized_keys_path(calls[i].user))
                   /\ Len(after) >= Len(before)
                   /\ SubSeq(after, 1, Len(before)) = before

C12_Witness ==
    /\ Len(calls) = 3
    /\ ~lexists(calls[1].pre.fs, authorized_keys_path("deploy"))
    /\ completed_key_steps("deploy") = {1, 2, 3}
    /\ count_cmds(calls[1].cmds, "ssh-keygen") = 1
    /\ fs[ssh_pub_key_path("deploy")].data = <<2>>
    /\ fs[authorized_keys_path("deploy")].data = <<2, 2, 2>>

----------------------------------------------------------------------------
(* Orchestration: properties of the runs of main, statement by statement *)

\* the step of main a statement belongs to: 1 group, 2 user, 3 deployment
\* layout, 4 key material, 5 port reconfiguration
stage_of_statement(pc) ==
    CASE pc \in {"idle", "start"} -> 0
      [] pc \in {"getgrnam", "groupadd"} -> 1
      [] pc \in {"getpwnam", "useradd", "usermod"} -> 2
      [] pc \in {"makedirs", "symlink", "chown_opt", "chown_home"} -> 3
      [] pc \in {"isfile_key", "ssh_keygen", "isfile_auth", "touch", "chmod",
                 "append"} -> 4
      [] pc \in {"isfile_config", "readlines", "write", "restart"} -> 5
      [] pc = "done" -> 6

\* the step of main that issues a command
stage_of_command(cmd) ==
    CASE cmd[1] = "groupadd" -> 1
      [] cmd[1] \in {"useradd", "usermod"} -> 2
      [] cmd[1] \in {"makedirs", "symlink", "chown"} -> 3
      [] cmd[1] \in {"ssh-keygen", "touch", "chmod", "append"} -> 4
      [] cmd[1] \in {"write", "restart"} -> 5

\* a run in progress, in the form of the record its exit leaves in calls
run_of(p) ==
    [op |-> "run", user |-> procs[p].user, group |-> GROUP,
     folder |-> procs[p].folder, port |-> procs[p].port,
     pre |-> procs[p].pre, post |-> Host,
     out |-> procs[p].out, cmds |-> procs[p].cmds,
     status |-> procs[p].status, at |-> procs[p].at]

\* the runs, over or in progress
runs == {calls[i] : i \in Calls} \cup {run_of(p) : p \in active}

\* the commands are issued step after step
in_step_order(cmds) ==
    \A m, n \in DOMAIN cmds :
        m < n => stage_of_command(cmds[m]) <= stage_of_command(cmds[n])

\* what the steps before step k have established is on the host
steps_before_kept(r, k) ==
    LET pub == ssh_pub_key_path(r.user)
        auth == authorized_keys_path(r.user)
    IN  /\ k > 1 => GROUP \in r.post.groups
        /\ k > 2 => r.user \in r.post.users
        /\ k > 3 => /\ lexists(r.post.fs, opt_path(r.folder))
                    /\ lexists(r.post.fs, home_path(r.user, r.folder))
        /\ k > 4 => /\ isfile(r.post.fs, pub)
                    /\ isfile(r.post.fs, auth)
                    /\ \E n \in 0..Len(r.post.fs[auth].data) :
                           r.post.fs[auth].data
                               = SubSeq(r.post.fs[auth].data, 1, n)
                                     \o r.post.fs[pub].data

\* the steps after step k have done nothing
steps_after_idle(r, k) ==
    /\ \A n \in DOMAIN r.cmds : stage_of_command(r.cmds[n]) <= k
    /\ k < 5 => r.post.sshd_config = r.pre.sshd_config
    /\ k < 4 => /\ r.post.keygens = r.pre.keygens
                /\ \A p \in {ssh_dir(r.user), ssh_key_path(r.user),
                             ssh_pub_key_path(r.user), authorized_keys_path(r.user)} :
                       r.post.fs[p] = r.pre.fs[p]
    /\ k < 3 => \A p \in {opt_path(r.folder), home_path(r.user, r.folder)} :
                    r.post.fs[p] = r.pre.fs[p]
    /\ k < 2 => r.post.users = r.pre.users /\ r.post.member = r.pre.member
    /\ k < 1 => r.post.groups = r.pre.groups

\* C13: a run of main goes through the steps group, user, deployment
\* layout, key material, port reconfiguration in this order, a step
\* starting when the one before has returned: the commands a run has
\* issued are in step order, none is of a step after the one the run is
\* in, and what the steps before have established is on the host.  A run
\* in which a statement raised has stopped at that statement, with a
\* non-zero exit status: the steps after it have done nothing, what the
\* steps before it did is kept.
C13_StepsInOrderFatalStops ==
    \A r \in runs :
        /\ in_step_order(r.cmds)
        /\ steps_after_idle(r, stage_of_statement(r.at))
        /\ steps_before_kept(r, stage_of_statement(r.at))
        /\ r.status = "ok" => \A p \in active : run_of(p) = r => procs[p].pc = r.at
        /\ r.status # "ok" =>
              /\ exit_status(r.status) # 0
              /\ r.at \in {"symlink", "append", "isfile_config"}
              /\ \A p \in active : run_of(p) = r => procs[p].pc = "dead"

\* a run on a host without sshd_config that created the group and the user,
\* laid out the folder, generated and appended the key, then died in the
\* port step
C13_Witness ==
    \E i \in Calls :
        /\ calls[i].status = "SystemExit(1)"
        /\ calls[i].at = "isfile_config"
        /\ \A kind \in {"groupadd", "useradd", "usermod", "makedirs", "symlink",
                        "ssh-keygen", "touch", "append"} :
               count_cmds(calls[i].cmds, kind) = 1
        /\ GROUP \in calls[i].post.groups
        /\ isfile(calls[i].post.fs, authorized_keys_path(calls[i].user))
        /\ ~calls[i].post.sshd_config.exists

\* the fully provisioned host of a run for user, folder: what an
\* uninterrupted first run on a fresh host leaves
provisioned(h, user, folder) ==
    LET opt == opt_path(folder)
        home == home_path(user, folder)
        pub == ssh_pub_key_path(user)
        auth == authorized_keys_path(user)
    IN  /\ GROUP \in h.groups
        /\ user \in h.users
        /\ <<user, GROUP>> \in h.member
        /\ h.fs[opt].kind = "dir" /\ h.fs[opt].owner = user
        /\ h.fs[home].kind = "link" /\ h.fs[home].target = opt
        /\ isfile(h.fs, ssh_key_path(user))
        /\ isfile(h.fs, pub)
        /\ isfile(h.fs, auth)
        /\ h.fs[auth].mode = "600"
        /\ \E m, n \in 0..Len(h.fs[auth].data) :
               m < n /\ SubSeq(h.fs[auth].data, m + 1, n) = h.fs[pub].data
        /\ effective_port(h.sshd_config) # default_ssh_port

\* an uninterrupted first run on the fresh host leaves it provisioned
FirstRunProvisions ==
    (Len(calls) >= 1 /\ calls[1].status = "ok")
        => provisioned(calls[1].post, calls[1].user, calls[1].folder)

\* C14: on a fresh host, when the first run is interrupted between two of
\* its statements, the uninterrupted run that follows it leaves the host
\* fully provisioned: group, user member of the group, /opt/<folder> owned
\* by the user with the home symlink to it, key pair, authorized_keys of
\* mode 600 holding the public key, sshd_config with a port other than 22.
C14_RerunAfterInterruptProvisions ==
    (/\ Len(calls) >= 2
     /\ calls[1].status = "KeyboardInterrupt"
     /\ calls[2].status = "ok")
        => provisioned(calls[2].post, calls[2].user, calls[2].folder)

----------------------------------------------------------------------------
(* Two invocations at once: properties *)

\* process q on the host that st holds
frame_on(st, q) ==
    [st EXCEPT !.out = procs[q].out, !.cmds = procs[q].cmds,
               !.status = procs[q].status]

\* the process state after the next statement of p, and after the next
\* statement of q run right behind it
after_one(p) == statement(procs[p], frame(procs[p])).st

after_both(p, q) == statement(procs[q], frame_on(after_one(p), q)).st

\* p and then q both issue the creation command of this kind with their
\* next statements
both_create(p, q, kind) ==
    /\ count_cmds(after_one(p).cmds, kind) = count_cmds(procs[p].cmds, kind) + 1
    /\ count_cmds(after_both(p, q).cmds, kind) = count_cmds(procs[q].cmds, kind) + 1

\* both invocations stand at the same statement
both_at(p, q, pc) == p # q /\ procs[p].pc = pc /\ procs[q].pc = pc

home_link_absent(p) == ~lexists(fs, home_path(procs[p].user, procs[p].folder))

\* the runs that created the home symlink
symlink_creators == {r \in runs : count_cmds(r.cmds, "symlink") > 0}

\* C15 as stated: for each of the group, the user, the home symlink and
\* the authorized_keys file, two concurrent invocations can both be past
\* the existence check with the resource absent, and both then perform
\* the creation.
C15_BothCreateEachOfFour ==
    \A p, q \in Procs :
        /\ both_at(p, q, "groupadd") => both_create(p, q, "groupadd")
        /\ both_at(p, q, "useradd") => both_create(p, q, "useradd")
        /\ (both_at(p, q, "symlink") /\ home_link_absent(p))
               => both_create(p, q, "symlink")
        /\ both_at(p, q, "touch") => both_create(p, q, "touch")

\* C15, amended: for the group, the user and the authorized_keys file two
\* concurrent invocations can both be past the existence check (getgrnam,
\* getpwnam, isfile found nothing) and both then issue the creation
\* (groupadd, useradd, touch).  For the home symlink there is no check
\* apart from the creation: of two invocations that both reach os.symlink
\* with no entry at the path, the first creates the link and the other
\* gets FileExistsError and reports that it already exists; no more than
\* one run ever creates it.
C15_BothCreateCheckedResources ==
    /\ \A p, q \in Procs :
          /\ both_at(p, q, "groupadd") =>
                GROUP \notin groups /\ both_create(p, q, "groupadd")
          /\ both_at(p, q, "useradd") =>
                procs[p].user \notin users /\ both_create(p, q, "useradd")
          /\ both_at(p, q, "touch") =>
                /\ ~isfile(fs, authorized_keys_path(procs[p].user))
                /\ both_create(p, q, "touch")
          /\ (both_at(p, q, "symlink") /\ home_link_absent(p)) =>
                /\ isdir(fs, home_dir(procs[p].user))
                /\ count_cmds(after_one(p).cmds, "symlink")
                       = count_cmds(procs[p].cmds, "symlink") + 1
                /\ after_both(p, q).cmds = procs[q].cmds
                /\ after_both(p, q).status = "ok"
                /\ after_both(p, q).out[Len(after_both(p, q).out)].fmt
                       = "{} already exists, proceeding..."
    /\ Cardinality(symlink_creators) <= 1

\* two invocations ran side by side to their end: each issued groupadd,
\* useradd and touch, one of them created the home symlink
C15_Witness ==
    /\ Len(calls) = 0
    /\ \A p \in Procs :
          /\ procs[p].pc = "done"
          /\ count_cmds(procs[p].cmds, "groupadd") = 1
          /\ count_cmds(procs[p].cmds, "useradd") = 1
          /\ count_cmds(procs[p].cmds, "touch") = 1
    /\ Cardinality(symlink_creators) = 1

----------------------------------------------------------------------------
(* Key material: the mode of authorized_keys *)

is_key_call(c) == c.op = "generate_ssh_key_pair"

\* the call set the mode of authorized_keys: chmod was issued and had a
\* file to act on
mode_set_by(c) ==
    /\ count_cmds(c.cmds, "chmod") > 0
    /\ isfile(c.post.fs, authorized_keys_path(c.user))

\* C16: over the calls of generate_ssh_key_pair for a user, a call that
\* finds authorized_keys present issues no chmod and leaves its mode as it
\* is, whatever it is; a call that finds it absent and creates it sets its
\* mode to 600; the mode is set by at most one of the calls.
C16_ModeSetOnlyOnCreation ==
    /\ \A i \in Calls :
          is_key_call(calls[i]) =>
              LET auth == authorized_keys_path(calls[i].user)
              IN  IF isfile(calls[i].pre.fs, auth)
                  THEN /\ count_cmds(calls[i].cmds, "chmod") = 0
                       /\ calls[i].post.fs[auth].mode = calls[i].pre.fs[auth].mode
                       /\ calls[i].post.fs[auth].owner = calls[i].pre.fs[auth].owner
                  ELSE /\ count_cmds(calls[i].cmds, "chmod") = 1
                       /\ calls[i].cmds[CHOOSE n \in DOMAIN calls[i].cmds :
                                            calls[i].cmds[n][1] = "chmod"]
                              = <<"chmod", "600", auth>>
                       /\ isfile(calls[i].post.fs, auth)
                              => calls[i].post.fs[auth].mode = "600"
    /\ \A u \in Users :
          Cardinality({i \in Calls : /\ is_key_call(calls[i])
                                     /\ calls[i].user = u
                                     /\ mode_set_by(calls[i])}) <= 1

\* a first call creates the file with mode 600 and a second call for the
\* same user leaves it; a call for the other user finds a file of mode 644
\* and leaves it at 644
C16_Witness ==
    /\ Len(calls) = 3
    /\ \A i \in Calls : is_key_call(calls[i])
    /\ calls[1].user = calls[2].user
    /\ ~isfile(calls[1].pre.fs, authorized_keys_path(calls[1].user))
    /\ mode_set_by(calls[1])
    /\ calls[1].post.fs[authorized_keys_path(calls[1].user)].mode = "600"
    /\ count_cmds(calls[2].cmds, "chmod") = 0
    /\ calls[2].post.fs[authorized_keys_path(calls[2].user)].mode = "600"
    /\ calls[3].user # calls[1].user
    /\ isfile(calls[3].pre.fs, authorized_keys_path(calls[3].user))
    /\ calls[3].pre.fs[authorized_keys_path(calls[3].user)].mode = "644"
    /\ calls[3].post.fs[authorized_keys_path(calls[3].user)].mode = "644"
    /\ calls[3].status = "ok"

----------------------------------------------------------------------------
(* Identity: the user that is already there *)

\* C17: when the user is already in the user database, create_user(user,
\* group) issues neither useradd nor usermod (no command at all), and the
\* user database and the memberships of every user, the ones of user with
\* or without group among them, are after the call what they were before.
C17_ExistingUserLeftAlone ==
    \A i \in Calls :
        (calls[i].op = "create_user" /\ calls[i].user \in calls[i].pre.users) =>
            /\ count_cmds(calls[i].cmds, "useradd") = 0
            /\ count_cmds(calls[i].cmds, "usermod") = 0
            /\ calls[i].cmds = <<>>
            /\ calls[i].post.users = calls[i].pre.users
            /\ calls[i].post.member = calls[i].pre.member
            /\ calls[i].post = calls[i].pre
            /\ calls[i].status = "ok"
            /\ said_only(calls[i], "yellow", "USER",
                         "{} already exists, proceeding...", calls[i].user)

\* create_user for a user who is there and is not a member of the group,
\* which exists: still not a member after the call; and one for a user
\* who is a member of another group: still a member of it
C17_Witness ==
    \E i, j \in Calls :
        /\ calls[i].op = "create_user"
        /\ calls[i].user \in calls[i].pre.users
        /\ calls[i].group \in calls[i].pre.groups
        /\ <<calls[i].user, calls[i].group>> \notin calls[i].pre.member
        /\ <<calls[i].user, calls[i].group>> \notin calls[i].post.member
        /\ calls[j].op = "create_user"
        /\ calls[j].user \in calls[j].pre.users
        /\ \E g \in Groups : g # calls[j].group
                             /\ <<calls[j].user, g>> \in calls[j].pre.member
                             /\ <<calls[j].user, g>> \in calls[j].post.member

----------------------------------------------------------------------------
(* Deployment layout: the entry that is already there *)

\* C18: when an entry of any kind is at /home/<user>/<folder> before
\* create_deployment_folder(folder, user), the call does not replace it:
\* its kind and its target are unchanged, also when it leads elsewhere
\* than to /opt/<folder>; and no entry of the filesystem other than
\* /opt/<folder> and /home/<user>/<folder> is changed.
C18_ExistingHomeEntryUntouched ==
    \A i \in Calls :
        LET opt == opt_path(calls[i].folder)
            home == home_path(calls[i].user, calls[i].folder)
        IN  (/\ calls[i].op = "create_deployment_folder"
             /\ lexists(calls[i].pre.fs, home)) =>
                /\ calls[i].post.fs[home].kind = calls[i].pre.fs[home].kind
                /\ calls[i].post.fs[home].target = calls[i].pre.fs[home].target
                /\ \A p \in Paths \ {opt, home} :
                       calls[i].post.fs[p] = calls[i].pre.fs[p]

----------------------------------------------------------------------------
(* Key material: a private key without its public key *)

\* a run of main on a host where the private key of the user is a file
\* and nothing is at the path of the public key
is_half_key_run(c) ==
    /\ c.op = "main"
    /\ isfile(c.pre.fs, ssh_key_path(c.user))
    /\ c.pre.fs[ssh_pub_key_path(c.user)] = Absent

\* C19: when the private key exists and the public key does not, the run
\* issues no ssh-keygen, dies of the FileNotFoundError of the open of the
\* public key with a non-zero exit status, appends nothing to
\* authorized_keys and never gets to the port: nothing of update_ssh_config
\* is printed, sshd_config is unchanged, sshd is not restarted.  An
\* authorized_keys that was absent has been created before, empty, mode
\* 600; one that was there is as it was.
C19_MissingPublicKeyEndsRun ==
    \A i \in Calls :
        is_half_key_run(calls[i]) =>
            LET c == calls[i]
                auth == authorized_keys_path(c.user)
            IN  /\ count_cmds(c.cmds, "ssh-keygen") = 0
                /\ c.post.keygens = c.pre.keygens
                /\ c.post.fs[ssh_key_path(c.user)] = c.pre.fs[ssh_key_path(c.user)]
                /\ c.post.fs[ssh_pub_key_path(c.user)] = Absent
                /\ c.status = "FileNotFoundError"
                /\ exit_status(c.status) # 0
                /\ count_cmds(c.cmds, "append") = 0
                /\ IF isfile(c.pre.fs, auth)
                   THEN /\ c.post.fs[auth] = c.pre.fs[auth]
                        /\ count_cmds(c.cmds, "touch") = 0
                   ELSE /\ c.post.fs[auth].kind = "file"
                        /\ c.post.fs[auth].data = <<>>
                        /\ c.post.fs[auth].mode = "600"
                        /\ count_cmds(c.cmds, "touch") = 1
                /\ c.post.sshd_config = c.pre.sshd_config
                /\ count_cmds(c.cmds, "write") = 0
                /\ count_cmds(c.cmds, "restart") = 0
                /\ \A n \in DOMAIN c.out : c.out[n].category # "SSH"

\* such a run on a host whose sshd_config has a commented default port and
\* that has no authorized_keys: the file is created empty with mode 600,
\* the run dies, sshd_config is as it was
C19_Witness ==
    \E i \in Calls :
        /\ is_half_key_run(calls[i])
        /\ calls[i].pre.sshd_config = config_file(writelines(<<line_commented_default>>))
        /\ calls[i].pre.fs[authorized_keys_path(calls[i].user)] = Absent
        /\ calls[i].post.fs[authorized_keys_path(calls[i].user)].mode = "600"
        /\ calls[i].status = "FileNotFoundError"
        /\ calls[i].post.sshd_config = calls[i].pre.sshd_config

====
